---- MODULE Spec2Model ----
(***************************************************************************)
(* Model of the local academic tutor: the console session of app.py and    *)
(* the EnhancedTutor engine with its web handlers of tutor.py.             *)
(*                                                                         *)
(* Text is a sequence of one-character strings, so that lower(), in,       *)
(* split and strip are computed rather than assumed.         A Turn is the *)
(* dict {"role": r, "content": c} as a record.  Temperatures are kept in   *)
(* tenths (0.2 is 2).                                                      *)
(***************************************************************************)
EXTENDS Integers, Sequences, FiniteSets, TLC

\* ------------------------------------------------------------------ bounds
MaxQuestions == 5
MaxChunks == 2
MaxFaults == 1
MaxWords == 3
MaxAppends == 11
MaxW == 2
MaxSlider == 4
MaxTurns == 4
MaxFrags == 4
MaxPageOps == 2
MaxPageTurns == 2
MaxShared == 3

\* --------------------------------------------------------------- constants
MAX_MEMORY == 4
MODEL0 == <<"phi3:mini">>
FAST_MODEL == <<"phi3:mini">>
SYSTEM_PROMPT == <<"SYSTEM_PROMPT">>
NoResponse == <<"No response">>

\* -------------------------------------------------------------------- text
UpperCase == <<"A","B","C","D","E","F","G","H","I","J","K","L","M",
               "N","O","P","Q","R","S","T","U","V","W","X","Y","Z">>
LowerCase == <<"a","b","c","d","e","f","g","h","i","j","k","l","m",
               "n","o","p","q","r","s","t","u","v","w","x","y","z">>

lowerChar(c) ==
    IF \E i \in 1..Len(UpperCase) : UpperCase[i] = c
    THEN LowerCase[CHOOSE i \in 1..Len(UpperCase) : UpperCase[i] = c]
    ELSE c

lower(s) == [i \in 1..Len(s) |-> lowerChar(s[i])]

\* Python's (kw in text) for strings: kw occurs as a contiguous run.
contains(text, kw) ==
    \E i \in 1..(Len(text) - Len(kw) + 1) : SubSeq(text, i, i + Len(kw) - 1) = kw

\* any(kw in text for kw in kws)
anyIn(kws, text) == \E j \in 1..Len(kws) : contains(text, kws[j])

IsSpace(c) == c \in {" ", "\t", "\n"}

RECURSIVE lstrip(_)
lstrip(s) == IF s # <<>> /\ IsSpace(Head(s)) THEN lstrip(Tail(s)) ELSE s

RECURSIVE rstrip(_)
rstrip(s) ==
    IF s # <<>> /\ IsSpace(s[Len(s)]) THEN rstrip(SubSeq(s, 1, Len(s) - 1)) ELSE s

strip(s) == rstrip(lstrip(s))

\* s.split('|'): the pieces between the separators, empty pieces included.
RECURSIVE splitAcc(_, _, _)
splitAcc(s, sep, cur) ==
    IF s = <<>> THEN <<cur>>
    ELSE IF Head(s) = sep THEN <<cur>> \o splitAcc(Tail(s), sep, <<>>)
    ELSE splitAcc(Tail(s), sep, Append(cur, Head(s)))

split(s, sep) == splitAcc(s, sep, <<>>)

Digits == <<"0","1","2","3","4","5","6","7","8","9","10","11","12","13","14","15","16">>
NumStr(n) == Digits[n + 1]

Turn(r, c) == [role |-> r, content |-> c]

\* ------------------------------------------------------- query classifier
MathKeywords == << <<"m","a","t","h">>, <<"d","e","r","i","v","e">>,
                   <<"s","o","l","v","e">>, <<"e","q","u","a","t","i","o","n">> >>
CodeKeywords == << <<"c","o","d","e">>, <<"p","r","o","g","r","a","m">>,
                   <<"d","e","b","u","g">>, <<"a","l","g","o","r","i","t","h","m">> >>
DetailedKeywords == << <<"e","x","p","l","a","i","n">>, <<"w","h","y">>,
                       <<"h","o","w">>, <<"m","e","c","h","a","n","i","s","m">> >>

detect_query_type_swapped(question) ==
    LET question_lower == lower(question)
    IN  IF anyIn(CodeKeywords, question_lower) THEN "code"
        ELSE IF anyIn(MathKeywords, question_lower) THEN "math"
        ELSE IF anyIn(DetailedKeywords, question_lower) THEN "detailed"
        ELSE "default"

detect_query_type(question) ==
    LET question_lower == lower(question)
    IN  IF anyIn(MathKeywords, question_lower) THEN "math"
        ELSE IF anyIn(CodeKeywords, question_lower) THEN "code"
        ELSE IF anyIn(DetailedKeywords, question_lower) THEN "detailed"
        ELSE "default"

params_map ==
    [math     |-> [temperature |-> 2, max_tokens |-> 300],
     code     |-> [temperature |-> 1, max_tokens |-> 400],
     detailed |-> [temperature |-> 4, max_tokens |-> 500],
     default  |-> [temperature |-> 3, max_tokens |-> 200]]

get_optimal_params(question) ==
    LET query_type == detect_query_type(question)
    IN  IF query_type \in DOMAIN params_map THEN params_map[query_type]
        ELSE params_map["default"]

EnhancedTutor_detect_query_type(question) ==
    LET question_lower == lower(question)
    IN  IF anyIn(MathKeywords, question_lower) THEN "math"
        ELSE IF anyIn(CodeKeywords, question_lower) THEN "code"
        ELSE IF anyIn(DetailedKeywords, question_lower) THEN "detailed"
        ELSE "default"

EnhancedTutor_get_optimal_params(question) ==
    LET query_type == EnhancedTutor_detect_query_type(question)
    IN  IF query_type \in DOMAIN params_map THEN params_map[query_type]
        ELSE params_map["default"]

\* ----------------------------------------------------------- memory window
\* messages[-(n):] for n >= 1
lastN(messages, n) ==
    IF Len(messages) <= n THEN messages
    ELSE SubSeq(messages, Len(messages) - n + 1, Len(messages))

trim_memory_fresh_system(messages) ==
    IF Len(messages) <= MAX_MEMORY * 2 + 1 THEN messages
    ELSE <<Turn("system", SYSTEM_PROMPT)>> \o lastN(messages, MAX_MEMORY * 2)

trim_memory_drops_first(messages) ==
    IF Len(messages) <= MAX_MEMORY * 2 + 1 THEN messages
    ELSE lastN(messages, MAX_MEMORY * 2 + 1)

trim_memory(messages) ==
    IF Len(messages) <= MAX_MEMORY * 2 + 1 THEN messages
    ELSE <<messages[1]>> \o lastN(messages, MAX_MEMORY * 2)

\* The inline trim of EnhancedTutor.ask.
ask_trim(messages, max_memory) ==
    IF Len(messages) > max_memory * 2 + 2
    THEN <<messages[1]>> \o lastN(messages, max_memory * 2)
    ELSE messages


\* ------------------------------------------------------------------- state
VARIABLES
    \* app.py, main(): the console session
    messages,       \* the Conversation (main's local list)
    MODEL,          \* the global MODEL
    pc,             \* where main is: idle (at input), create, streaming, exited, crashed
    full_text,      \* ask's buffer
    chunks,         \* chunks the current stream has delivered
    response,       \* what the last call of ask returned
    sent,           \* the inference requests the last input line issued
    export_file,    \* the file of the most recent /export: absent, partial, complete
    asked,          \* questions submitted so far
    run,            \* the successful round trips since the Conversation was system-only
    run_ok,         \* no failed question since then
    faults,         \* deviations from the one-chunk answer so far
    notice,         \* the notice the last input line printed: none, help, unknown, ...
    \* the Memory Window and the classifier as functions
    seq,            \* a message list under append and trim
    pre,            \* the list the last trim was applied to
    W,              \* the window size given to the inline trim
    appended,       \* Turns appended so far
    lastTrim,       \* none, append, trim_memory, ask_trim
    question,       \* a question handed to the classifier
    classified,     \* the classifier's results for it: <<>> or <<results>>
    \* tutor.py: the EnhancedTutor instance and the web page
    conversation_history,   \* tutor.conversation_history
    session_metadata,       \* tutor.session_metadata
    chatbot,        \* the value of the Chatbot component (the history the page holds)
    t_pc,           \* where the turn is: idle, create, streaming, finalizing
    new_history,    \* chat_function's new_history
    t_request,      \* the arguments of the inference call of the turn, <<>> outside one
    full_response,  \* ask's buffer
    delivered,      \* the chunk texts the stream has delivered, empty ones too
    yields,         \* the items ask has yielded in the turn
    t_end,          \* how the stream of the turn ended: none, normal, error
    t_asked,        \* messages submitted so far
    t_faults,       \* deviations from the one-chunk answer so far
    \* tutor.py: the settings, the controls of the page, the files
    config,         \* tutor.config
    settings_file,  \* tutor_settings.json
    mode_radio,     \* the value of the Response Mode radio
    model_dropdown, \* the value of the Model Selection dropdown
    memory_slider,  \* the value of the Memory Window slider
    temp_slider,    \* the value of the Temperature slider
    save_status,    \* the text under the Save Settings button: none, saved, failed
    chat_export,    \* the file of the most recent export: absent, partial, complete
    download_file,  \* what export_json handed to the File component
    page_ops,       \* control changes, saves and exports so far
    \* tutor.py: calls of chat_function running at the same time
    h_pc,           \* where each listener's call of tutor.ask is
    h_question,     \* its question
    h_response,     \* its full_response
    h_count,        \* the messages_count it read for += 2
    shared_turns    \* submissions so far

appVars == <<messages, MODEL, pc, full_text, chunks, response, sent, export_file,
             asked, run, run_ok, faults, notice>>
memVars == <<seq, pre, W, appended, lastTrim>>
clsVars == <<question, classified>>
tutVars == <<conversation_history, session_metadata, chatbot, t_pc, new_history,
             t_request, full_response, delivered, yields, t_end, t_asked, t_faults>>
pageVars == <<config, settings_file, mode_radio, model_dropdown, memory_slider,
              temp_slider, save_status, chat_export, download_file, page_ops>>
conVars == <<h_pc, h_question, h_response, h_count, shared_turns>>
vars == <<appVars, memVars, clsVars, tutVars, pageVars, conVars>>

\* msg.submit and submit_btn.click: two listeners, each bound to chat_function.
Listeners == {"msg.submit", "submit_btn.click"}

system_turn == Turn("system", SYSTEM_PROMPT)

AppInit ==
    /\ messages = <<system_turn>>
    /\ MODEL = MODEL0
    /\ pc = "idle"
    /\ full_text = <<>>
    /\ chunks = 0
    /\ response = <<>>
    /\ sent = <<>>
    /\ export_file = "absent"
    /\ asked = 0
    /\ run = <<>>
    /\ run_ok = TRUE
    /\ faults = 0
    /\ notice = "none"

MemIdle ==
    /\ seq = <<>>
    /\ pre = <<>>
    /\ W = 1
    /\ appended = 0
    /\ lastTrim = "none"

ClsIdle ==
    /\ question = <<>>
    /\ classified = <<>>

\* ------------------------------------------------- tutor.py: the settings
\* (temperature in tenths)
DEFAULT_CONFIG ==
    [ollama_url  |-> <<"http://localhost:11434/v1">>,
     model       |-> <<"phi3:mini">>,
     max_memory  |-> 4,
     temperature |-> 3,
     buffer_size |-> 256]

\* The keys a JSON object of the settings file holds: <<>> for a key it lacks,
\* <<v>> for a key it gives the value v.
NoKeys == [k \in DOMAIN DEFAULT_CONFIG |-> <<>>]

\* tutor_settings.json: kind is missing, corrupt (no JSON), notobject (JSON, but
\* not an object) or object.
MissingFile == [kind |-> "missing", obj |-> NoKeys]
CorruptFile == [kind |-> "corrupt", obj |-> NoKeys]

\* json.dump(config, f)
dump(cfg) == [kind |-> "object", obj |-> [k \in DOMAIN cfg |-> <<cfg[k]>>]]

\* {**DEFAULT_CONFIG, **json.load(f)}
merge(defaults, loaded) ==
    [k \in DOMAIN defaults |-> IF loaded[k] # <<>> THEN loaded[k][1] ELSE defaults[k]]

\* load_settings: the merge when the file exists and json.load and the merge
\* raise nothing, the defaults otherwise.
load_settings(file) ==
    IF file.kind = "object" THEN merge(DEFAULT_CONFIG, file.obj)
    ELSE DEFAULT_CONFIG

\* The settings files a start may find.
SettingsFiles ==
    { MissingFile, CorruptFile,
      [kind |-> "notobject", obj |-> NoKeys],
      [kind |-> "object", obj |-> [NoKeys EXCEPT !.max_memory = <<2>>]],
      [kind |-> "object", obj |-> [NoKeys EXCEPT !.model = << <<"mistral">> >>]],
      dump([DEFAULT_CONFIG EXCEPT !.model = <<"llama3.2">>, !.max_memory = 3]) }

\* CONFIG = load_settings(); EnhancedTutor.__init__ and the page as
\* create_enhanced_ui builds it.
TutStart(file) ==
    /\ settings_file = file
    /\ config = load_settings(file)
    /\ mode_radio = "Quick"
    /\ model_dropdown = load_settings(file).model
    /\ memory_slider = load_settings(file).max_memory
    /\ temp_slider = load_settings(file).temperature
    /\ save_status = "none"
    /\ chat_export = "absent"
    /\ download_file = "none"
    /\ page_ops = 0
    /\ h_pc = [h \in Listeners |-> "idle"]
    /\ h_question = [h \in Listeners |-> <<>>]
    /\ h_response = [h \in Listeners |-> <<>>]
    /\ h_count = [h \in Listeners |-> 0]
    /\ shared_turns = 0
    /\ conversation_history = <<>>
    /\ session_metadata = [created |-> "t0", messages_count |-> 0,
                           performance_metrics |-> <<>>]
    /\ chatbot = <<>>
    /\ t_pc = "idle"
    /\ new_history = <<>>
    /\ t_request = <<>>
    /\ full_response = <<>>
    /\ delivered = <<>>
    /\ yields = <<>>
    /\ t_end = "none"
    /\ t_asked = 0
    /\ t_faults = 0

\* The start without a settings file.
TutInit == TutStart(MissingFile)


\* ------------------------------------------------------------ app.py: ask
\* next((m['content'] for m in reversed(messages) if m['role'] == 'user'), "")
last_question(msgs) ==
    IF \E i \in 1..Len(msgs) : msgs[i].role = "user"
    THEN msgs[CHOOSE i \in 1..Len(msgs) :
                /\ msgs[i].role = "user"
                /\ \A j \in (i + 1)..Len(msgs) : msgs[j].role # "user"].content
    ELSE <<>>

\* The arguments of client.chat.completions.create in ask.
ask_request(msgs, model) ==
    [model |-> model, messages |-> msgs, stream |-> TRUE,
     params |-> get_optimal_params(last_question(msgs))]

\* ------------------------------------------------------ app.py: main loop
ExitWords == { <<"e","x","i","t">>, <<"q","u","i","t">>, <<"q">> }

QuestionBases == << <<"h","i"," ">>, <<" ","S","o","l","v","e"," ","x">> >>

\* The line a user types as the n-th question: the two texts in turn, numbered.
QuestionLines(n) == { QuestionBases[(n % 2) + 1] \o <<NumStr(n)>> }

CommandLines ==
    { <<"/","h","e","l","p">>, <<"/","h","i","s","t","o","r","y">>,
      <<"/","c","l","e","a","r">>, <<"/","C","L","E","A","R"," ">>,
      <<"/","f","a","s","t">>, <<"/","b","a","t","c","h">>,
      <<"/","e","x","p","o","r","t">>, <<"/","e","x","i","t">>, <<"/","q">>,
      <<"/","f","o","o">>, <<"/">> }

BlankLines == { <<>>, <<" ">>, <<" ", "\t">> }

ExitLines == { <<"e","x","i","t">>, <<"Q","u","i","t"," ">>, <<"q">> }

IsBlank(line) == strip(line) = <<>>
IsCommand(line) == ~IsBlank(line) /\ Head(strip(line)) = "/"
IsExit(line) == ~IsBlank(line) /\ ~IsCommand(line) /\ lower(strip(line)) \in ExitWords
IsQuestion(line) == ~IsBlank(line) /\ ~IsCommand(line) /\ ~IsExit(line)

\* command = cmd[1:].lower()
command_of(line) == lower(Tail(strip(line)))

\* What the lines above come to once main and handle_command have read them.
TypedBlank == { line \in BlankLines : IsBlank(line) }
TypedExit == { line \in ExitLines : IsExit(line) }
TypedCommands == { command_of(line) : line \in { l \in CommandLines : IsCommand(l) } }

\* The process ends (how: exited, crashed): its memory is gone and with it the
\* Conversation; only the files it wrote are left.
Ended(how) ==
    /\ pc' = how
    /\ messages' = <<>>
    /\ full_text' = <<>>
    /\ chunks' = 0
    /\ response' = <<>>
    /\ sent' = <<>>
    /\ asked' = 0
    /\ run' = <<>>
    /\ run_ok' = TRUE
    /\ faults' = 0
    /\ notice' = "none"
    /\ UNCHANGED MODEL

\* input() raises EOFError or KeyboardInterrupt: main breaks out of the loop.
InputEOF ==
    /\ pc = "idle"
    /\ Ended("exited")
    /\ UNCHANGED export_file
    /\ UNCHANGED <<memVars, clsVars, tutVars, pageVars, conVars>>

EmptyInput ==
    /\ pc = "idle"
    /\ TypedBlank # {}
    /\ sent' = <<>>
    /\ UNCHANGED <<messages, MODEL, pc, full_text, chunks, response, export_file,
                   asked, run, run_ok, faults>>
    /\ notice' = "none"
    /\ UNCHANGED <<memVars, clsVars, tutVars, pageVars, conVars>>

ExitWord ==
    /\ pc = "idle"
    /\ TypedExit # {}
    /\ Ended("exited")
    /\ UNCHANGED export_file
    /\ UNCHANGED <<memVars, clsVars, tutVars, pageVars, conVars>>

\* messages.append(user Turn); messages = trim_memory(messages); ask(...) starts
\* and issues the inference call.
Question ==
    /\ pc = "idle"
    /\ asked < MaxQuestions
    /\ \E line \in QuestionLines(asked + 1) :
        /\ IsQuestion(line)
        /\ LET q == strip(line)
               trimmed == trim_memory(Append(messages, Turn("user", q)))
           IN  /\ messages' = trimmed
               /\ sent' = <<ask_request(trimmed, MODEL)>>
    /\ asked' = asked + 1
    /\ pc' = "create"
    /\ full_text' = <<>>
    /\ chunks' = 0
    /\ UNCHANGED <<MODEL, response, export_file, run, run_ok, faults>>
    /\ notice' = "none"
    /\ UNCHANGED <<memVars, clsVars, tutVars, pageVars, conVars>>

\* client.chat.completions.create raises: ask prints the error and returns "";
\* main appends nothing.
CreateError ==
    /\ pc = "create"
    /\ faults < MaxFaults
    /\ faults' = faults + 1
    /\ response' = <<>>
    /\ pc' = "idle"
    /\ run_ok' = FALSE
    /\ UNCHANGED <<messages, MODEL, full_text, chunks, sent, export_file, asked, run>>
    /\ notice' = notice
    /\ UNCHANGED <<memVars, clsVars, tutVars, pageVars, conVars>>

CreateOk ==
    /\ pc = "create"
    /\ pc' = "streaming"
    /\ UNCHANGED <<messages, MODEL, full_text, chunks, response, sent, export_file,
                   asked, run, run_ok, faults>>
    /\ notice' = notice
    /\ UNCHANGED <<memVars, clsVars, tutVars, pageVars, conVars>>

\* What one chunk's delta.content can be: nothing, or a piece of text.
ChunkTexts == { <<>>, <<"o","k">> }

\* for chunk in response: if ... delta.content: full_text += text
\* (a first chunk with text is the plain answer; an empty chunk and any further
\* chunk count against MaxFaults)
Chunk ==
    /\ pc = "streaming"
    /\ chunks < MaxChunks
    /\ \E text \in ChunkTexts :
        /\ full_text' = IF text # <<>> THEN full_text \o text ELSE full_text
        /\ IF text # <<>> /\ chunks = 0
           THEN faults' = faults
           ELSE faults < MaxFaults /\ faults' = faults + 1
    /\ chunks' = chunks + 1
    /\ UNCHANGED <<messages, MODEL, pc, response, sent, export_file, asked, run,
                   run_ok>>
    /\ notice' = notice
    /\ UNCHANGED <<memVars, clsVars, tutVars, pageVars, conVars>>

\* The stream ends: ask returns full_text or "No response"; main appends the
\* assistant Turn when the response is not empty.
StreamEnd ==
    /\ pc = "streaming"
    /\ IF full_text # <<>> THEN faults' = faults
       ELSE faults < MaxFaults /\ faults' = faults + 1
    /\ LET r == IF full_text # <<>> THEN full_text ELSE NoResponse
       IN  /\ response' = r
           /\ messages' = IF r # <<>> THEN Append(messages, Turn("assistant", r))
                          ELSE messages
           /\ run' = IF run_ok THEN Append(run, <<last_question(messages), r>>)
                     ELSE run
    /\ pc' = "idle"
    /\ UNCHANGED <<MODEL, full_text, chunks, sent, export_file, asked, run_ok>>
    /\ notice' = notice
    /\ UNCHANGED <<memVars, clsVars, tutVars, pageVars, conVars>>

\* The stream raises: ask prints the error and returns ""; main appends nothing.
StreamError ==
    /\ pc = "streaming"
    /\ faults < MaxFaults
    /\ faults' = faults + 1
    /\ response' = <<>>
    /\ pc' = "idle"
    /\ run_ok' = FALSE
    /\ UNCHANGED <<messages, MODEL, full_text, chunks, sent, export_file, asked, run>>
    /\ notice' = notice
    /\ UNCHANGED <<memVars, clsVars, tutVars, pageVars, conVars>>

\* Ctrl-C while ask waits for the call or reads the stream: KeyboardInterrupt is
\* no Exception, so ask's handler lets it pass, and main calls ask outside its
\* try: the process ends with a traceback.
Interrupt ==
    /\ pc \in {"create", "streaming"}
    /\ Ended("crashed")
    /\ UNCHANGED export_file
    /\ UNCHANGED <<memVars, clsVars, tutVars, pageVars, conVars>>

\* ------------------------------------------------- app.py: handle_command
CmdHelp ==
    /\ pc = "idle"
    /\ <<"h","e","l","p">> \in TypedCommands
    /\ sent' = <<>>
    /\ UNCHANGED <<messages, MODEL, pc, full_text, chunks, response, export_file,
                   asked, run, run_ok, faults>>
    /\ notice' = "help"
    /\ UNCHANGED <<memVars, clsVars, tutVars, pageVars, conVars>>

CmdHistory ==
    /\ pc = "idle"
    /\ <<"h","i","s","t","o","r","y">> \in TypedCommands
    /\ sent' = <<>>
    /\ UNCHANGED <<messages, MODEL, pc, full_text, chunks, response, export_file,
                   asked, run, run_ok, faults>>
    /\ notice' = "history"
    /\ UNCHANGED <<memVars, clsVars, tutVars, pageVars, conVars>>

\* return [messages[0]]
CmdClear ==
    /\ pc = "idle"
    /\ <<"c","l","e","a","r">> \in TypedCommands
    /\ messages' = <<messages[1]>>
    /\ run' = <<>>
    /\ run_ok' = TRUE
    /\ sent' = <<>>
    /\ UNCHANGED <<MODEL, pc, full_text, chunks, response, export_file, asked, faults>>
    /\ notice' = "cleared"
    /\ UNCHANGED <<memVars, clsVars, tutVars, pageVars, conVars>>

\* global MODEL; MODEL = FAST_MODEL
CmdFast ==
    /\ pc = "idle"
    /\ <<"f","a","s","t">> \in TypedCommands
    /\ MODEL' = FAST_MODEL
    /\ sent' = <<>>
    /\ UNCHANGED <<messages, pc, full_text, chunks, response, export_file, asked,
                   run, run_ok, faults>>
    /\ notice' = "fast"
    /\ UNCHANGED <<memVars, clsVars, tutVars, pageVars, conVars>>

\* What the user may type at the "Batch: " prompt.
BatchInputs ==
    { <<>>, <<" ">>,
      <<"h","i">>,
      <<" ","w","h","y"," ","|"," ","|","c","o","d","e","|">>,
      <<"a","|","b","|","c">> }

\* [q.strip() for q in batch_input.split('|') if q.strip()]
batch_questions(batch_input) ==
    LET pieces == split(batch_input, "|")
        kept == SelectSeq(pieces, LAMBDA q : strip(q) # <<>>)
    IN  [i \in 1..Len(kept) |-> strip(kept[i])]

\* batch_input = input(...).strip(), and the questions each one splits into.
TypedBatch == { strip(raw) : raw \in BatchInputs }
TypedQuestions == [batch_input \in TypedBatch |-> batch_questions(batch_input)]

handle_batch_shared_context(questions, msgs) ==
    [i \in 1..Len(questions) |->
        ask_request(msgs \o <<Turn("user", questions[i])>>, MODEL)]

\* handle_batch: the request of each ask call, in the order the calls are made.
handle_batch(questions, msgs) ==
    [i \in 1..Len(questions) |->
        ask_request(<<Turn("system", SYSTEM_PROMPT), Turn("user", questions[i])>>,
                    MODEL)]

CmdBatch ==
    /\ pc = "idle"
    /\ <<"b","a","t","c","h">> \in TypedCommands
    /\ \/ \E batch_input \in TypedBatch :
                /\ sent' = IF batch_input # <<>>
                           THEN handle_batch(TypedQuestions[batch_input], messages)
                           ELSE <<>>
                /\ notice' = "batch"
                /\ UNCHANGED <<messages, MODEL, pc, full_text, chunks, response,
                               asked, run, run_ok, faults>>
       \/ \* input() raises EOFError or KeyboardInterrupt: nothing catches it
          Ended("crashed")
    /\ UNCHANGED export_file
    /\ UNCHANGED <<memVars, clsVars, tutVars, pageVars, conVars>>

\* export_conversation: open(filename, 'w') and json.dump; an OSError of either
\* leaves main through handle_command, which catches nothing.
CmdExport ==
    /\ pc = "idle"
    /\ <<"e","x","p","o","r","t">> \in TypedCommands
    /\ \/ /\ export_file' = "complete"
          /\ notice' = "exported"
          /\ sent' = <<>>
          /\ UNCHANGED <<messages, MODEL, pc, full_text, chunks, response,
                         asked, run, run_ok, faults>>
       \/ export_file' = "absent" /\ Ended("crashed")
       \/ export_file' = "partial" /\ Ended("crashed")
    /\ UNCHANGED <<memVars, clsVars, tutVars, pageVars, conVars>>

\* sys.exit(0)
CmdExit ==
    /\ pc = "idle"
    /\ TypedCommands \cap ExitWords # {}
    /\ Ended("exited")
    /\ UNCHANGED export_file
    /\ UNCHANGED <<memVars, clsVars, tutVars, pageVars, conVars>>

KnownCommands ==
    { <<"h","e","l","p">>, <<"h","i","s","t","o","r","y">>, <<"c","l","e","a","r">>,
      <<"f","a","s","t">>, <<"b","a","t","c","h">>, <<"e","x","p","o","r","t">> }
    \cup ExitWords

CmdUnknown_clears ==
    /\ pc = "idle"
    /\ TypedCommands \ KnownCommands # {}
    /\ messages' = <<messages[1]>>
    /\ run' = <<>>
    /\ run_ok' = TRUE
    /\ sent' = <<>>
    /\ notice' = "unknown"
    /\ UNCHANGED <<MODEL, pc, full_text, chunks, response, export_file, asked, faults>>
    /\ UNCHANGED <<memVars, clsVars, tutVars, pageVars, conVars>>

\* console.print("Unknown command: ..."); return messages
CmdUnknown ==
    /\ pc = "idle"
    /\ TypedCommands \ KnownCommands # {}
    /\ sent' = <<>>
    /\ UNCHANGED <<messages, MODEL, pc, full_text, chunks, response, export_file,
                   asked, run, run_ok, faults>>
    /\ notice' = "unknown"
    /\ UNCHANGED <<memVars, clsVars, tutVars, pageVars, conVars>>

Init == AppInit /\ MemIdle /\ ClsIdle /\ TutInit

Next ==
    \/ InputEOF
    \/ EmptyInput
    \/ ExitWord
    \/ Question
    \/ CreateError
    \/ CreateOk
    \/ Chunk
    \/ StreamEnd
    \/ StreamError
    \/ Interrupt
    \/ CmdHelp
    \/ CmdHistory
    \/ CmdClear
    \/ CmdFast
    \/ CmdBatch
    \/ CmdExport
    \/ CmdExit
    \/ CmdUnknown

Spec == Init /\ [][Next]_vars


\* ------------------------------------------- the Memory Window on its own
FirstRoles == {"system", "user", "assistant"}

\* The role of the n-th appended Turn: user and assistant in turn.
AppendRole(n) == IF n % 2 = 1 THEN "user" ELSE "assistant"

MemInit ==
    /\ seq \in {<<>>} \cup { <<Turn(r, <<NumStr(0)>>)>> : r \in FirstRoles }
    /\ pre = <<>>
    /\ W \in 1..MaxW
    /\ appended = 0
    /\ lastTrim = "none"

\* messages.append(turn)
MemAppend ==
    /\ appended < MaxAppends
    /\ seq' = Append(seq, Turn(AppendRole(appended + 1), <<NumStr(appended + 1)>>))
    /\ appended' = appended + 1
    /\ pre' = <<>>
    /\ lastTrim' = "append"
    /\ UNCHANGED W
    /\ UNCHANGED <<appVars, clsVars, tutVars, pageVars, conVars>>

\* messages = trim_memory(messages)
MemTrimMemory ==
    /\ pre' = seq
    /\ seq' = trim_memory(seq)
    /\ lastTrim' = "trim_memory"
    /\ UNCHANGED <<W, appended>>
    /\ UNCHANGED <<appVars, clsVars, tutVars, pageVars, conVars>>

\* The trim of EnhancedTutor.ask, with max_memory = W.
MemAskTrim ==
    /\ pre' = seq
    /\ seq' = ask_trim(seq, W)
    /\ lastTrim' = "ask_trim"
    /\ UNCHANGED <<W, appended>>
    /\ UNCHANGED <<appVars, clsVars, tutVars, pageVars, conVars>>

NextMem == MemAppend \/ MemTrimMemory \/ MemAskTrim

InitMem == AppInit /\ MemInit /\ ClsIdle /\ TutInit

SpecMem == InitMem /\ [][NextMem]_vars

\* --------------------------------------------- the classifier on its own
Vocabulary ==
    { <<"M","a","t","h">>, <<"S","O","L","V","E">>, <<"c","o","d","e">>,
      <<"d","e","B","u","g">>, <<"w","h","y">>, <<"m","e","c","h","a","n","i","s","m">>,
      <<"s","o">>, <<"l","v","e">>, <<" ","x"," ">> }

RECURSIVE Phrases(_)
Phrases(n) ==
    IF n = 0 THEN { <<>> }
    ELSE Phrases(n - 1) \cup { p \o w : p \in Phrases(n - 1), w \in Vocabulary }

ClsInit ==
    /\ question \in Phrases(MaxWords)
    /\ classified = <<>>

Classify ==
    /\ classified = <<>>
    /\ classified' = <<
         [query_type |-> detect_query_type(question),
          params |-> get_optimal_params(question),
          tutor_query_type |-> EnhancedTutor_detect_query_type(question),
          tutor_params |-> EnhancedTutor_get_optimal_params(question)] >>
    /\ UNCHANGED question
    /\ UNCHANGED <<appVars, memVars, tutVars, pageVars, conVars>>

NextCls == Classify

InitCls == AppInit /\ MemIdle /\ ClsInit /\ TutInit

SpecCls == InitCls /\ [][NextCls]_vars


\* ------------------------------------------------ tutor.py: EnhancedTutor
SYSTEM_PROMPTS ==
    [default  |-> <<"SYSTEM_PROMPTS.default">>,
     detailed |-> <<"SYSTEM_PROMPTS.detailed">>,
     fast     |-> <<"SYSTEM_PROMPTS.fast">>]

format_system_prompt(mode) ==
    IF mode \in DOMAIN SYSTEM_PROMPTS THEN SYSTEM_PROMPTS[mode]
    ELSE SYSTEM_PROMPTS["default"]

\* the static disclaimer appended to the final item
meta_append == <<"\n", "\n", "-", "-", "-", "\n", "*Verify all STEM answers*">>

\* f"Error: {str(e)}"
ErrorItem == <<"Error: ", "e">>

\* The backtick character (a TLA+ string cannot hold one).
BT == "BACKTICK"

Fence == <<BT, BT, BT>>

\* \w of the pattern
IsWordChar(c) ==
    \/ \E i \in 1..Len(UpperCase) : UpperCase[i] = c
    \/ \E i \in 1..Len(LowerCase) : LowerCase[i] = c
    \/ c \in {"0","1","2","3","4","5","6","7","8","9","_"}

startsWith(t, p) == Len(t) >= Len(p) /\ SubSeq(t, 1, Len(p)) = p

RECURSIVE wordRun(_)
wordRun(t) == IF t # <<>> /\ IsWordChar(Head(t)) THEN 1 + wordRun(Tail(t)) ELSE 0

FencesFrom(t, from) == { j \in from..(Len(t) - 2) : SubSeq(t, j, j + 2) = Fence }

\* A match of the pattern fence (\w+)? newline (.*?) fence, with DOTALL, at the
\* start of t: <<>> when there
\* is none, else the language tag, the code and the position the match ends at.
\* The tag is the whole run of word characters (a newline must follow it) and the
\* lazy group ends at the first fence after the newline.
codeMatch(t) ==
    IF ~startsWith(t, Fence) THEN <<>>
    ELSE LET k == wordRun(SubSeq(t, 4, Len(t)))
             nl == 4 + k
         IN  IF nl <= Len(t) /\ t[nl] = "\n" /\ FencesFrom(t, nl + 1) # {}
             THEN LET j == CHOOSE x \in FencesFrom(t, nl + 1) :
                                \A y \in FencesFrom(t, nl + 1) : x <= y
                  IN  << [lang |-> SubSeq(t, 4, 3 + k),
                          code |-> SubSeq(t, nl + 1, j - 1),
                          end |-> j + 2] >>
             ELSE <<>>

\* The names get_lexer_by_name knows, among those the streams below can spell.
KnownLexers == { <<"p","y","t","h","o","n">>, <<"p","y">> }

\* replace_code: the markup Pygments returns is kept as the code between its
\* opening and closing tags; an unknown language falls to <pre><code>.
replace_code(group1, code) ==
    LET lang == IF group1 # <<>> THEN group1 ELSE <<"p","y","t","h","o","n">>
    IN  IF lang \in KnownLexers
        THEN <<"<div class=\"code-block\">", "<div class=\"highlight\"><pre>">>
             \o code \o <<"</pre></div>", "</div>">>
        ELSE <<"<pre><code>">> \o code \o <<"</code></pre>">>

\* re.sub(pattern, replace_code, text): leftmost matches, not overlapping.
RECURSIVE format_code_in_response(_)
format_code_in_response(text) ==
    IF text = <<>> THEN <<>>
    ELSE LET m == codeMatch(text)
         IN  IF m # <<>>
             THEN replace_code(m[1].lang, m[1].code)
                  \o format_code_in_response(SubSeq(text, m[1].end + 1, Len(text)))
             ELSE <<Head(text)>> \o format_code_in_response(Tail(text))

snapshot_delta(buffer, text) == text

\* full_response += text; yield full_response
snapshot(buffer, text) == buffer \o text

\* formatted_response = format_code_in_response(full_response) + meta_append
final_item(buffer) == format_code_in_response(buffer) \o meta_append

\* ------------------------------------------------- tutor.py: the web page
ModeChoices == {"Quick", "Detailed", "Step-by-Step"}

update_response_mode(mode) ==
    IF mode = "Quick" THEN "default"
    ELSE IF mode \in {"Detailed", "Step-by-Step"} THEN "detailed"
    ELSE "default"

ModelChoices == { <<"phi3:mini">>, <<"llama3.2">>, <<"mistral">> }

MemorySliderMin == 2
MemoryValues == MemorySliderMin..MaxSlider

\* chat_function up to the inference call of tutor.ask: the message set is built
\* from the history the page holds, trimmed, and the call is issued.
TSubmit(limit) ==
    /\ t_pc = "idle"
    /\ t_asked < limit
    /\ \E message \in QuestionLines(t_asked + 1) :
        LET mode == mode_radio
            model_val == model_dropdown
            memory_val == memory_slider
            mode_key == update_response_mode(mode)
            nh == chatbot \o <<Turn("user", message)>>
            history == SubSeq(nh, 1, Len(nh) - 1)
            msgs == <<Turn("system", format_system_prompt(mode_key))>> \o history
                    \o <<Turn("user", message)>>
        IN  /\ message # <<>>
            /\ new_history' = nh
            /\ t_request' = << [model |-> IF model_val # <<>> THEN model_val
                                          ELSE config.model,
                                messages |-> ask_trim(msgs, memory_val),
                                stream |-> TRUE,
                                params |-> EnhancedTutor_get_optimal_params(message)] >>
    /\ full_response' = <<>>
    /\ delivered' = <<>>
    /\ yields' = <<>>
    /\ t_end' = "none"
    /\ t_pc' = "create"
    /\ t_asked' = t_asked + 1
    /\ UNCHANGED <<conversation_history, session_metadata, chatbot, t_faults>>
    /\ UNCHANGED <<appVars, memVars, clsVars, pageVars, conVars>>

\* A variant of the failure path that issues the inference call again.
TCreateError_retries(budget) ==
    /\ t_pc = "create"
    /\ t_faults < budget
    /\ t_faults' = t_faults + 1
    /\ t_pc' = "create"
    /\ UNCHANGED <<conversation_history, session_metadata, chatbot, new_history,
                   t_request, full_response, delivered, yields, t_end, t_asked>>
    /\ UNCHANGED <<appVars, memVars, clsVars, pageVars, conVars>>

\* create raises: ask yields the error text, chat_function shows it as the answer.
TCreateError(budget) ==
    /\ t_pc = "create"
    /\ t_faults < budget
    /\ t_faults' = t_faults + 1
    /\ yields' = Append(yields, ErrorItem)
    /\ chatbot' = Append(new_history, Turn("assistant", ErrorItem))
    /\ t_end' = "error"
    /\ t_request' = <<>>
    /\ t_pc' = "idle"
    /\ UNCHANGED <<conversation_history, session_metadata, new_history, full_response,
                   delivered, t_asked>>
    /\ UNCHANGED <<appVars, memVars, clsVars, pageVars, conVars>>

TCreateOk ==
    /\ t_pc = "create"
    /\ t_request' = <<>>
    /\ t_pc' = "streaming"
    /\ UNCHANGED <<conversation_history, session_metadata, chatbot, new_history,
                   full_response, delivered, yields, t_end, t_asked, t_faults>>
    /\ UNCHANGED <<appVars, memVars, clsVars, pageVars, conVars>>

\* One chunk: text is added to the buffer and the buffer is yielded; a chunk
\* without text yields nothing.  (A first chunk with text is the plain answer; an
\* empty chunk and any further chunk count against the budget.)
TChunk(texts, maxChunks, budget) ==
    /\ t_pc = "streaming"
    /\ Len(delivered) < maxChunks
    /\ \E text \in texts :
        /\ delivered' = Append(delivered, text)
        /\ IF text # <<>> /\ delivered = <<>>
           THEN t_faults' = t_faults
           ELSE t_faults < budget /\ t_faults' = t_faults + 1
        /\ IF text # <<>>
           THEN /\ full_response' = snapshot(full_response, text)
                /\ yields' = Append(yields, snapshot(full_response, text))
                /\ chatbot' = Append(new_history,
                                     Turn("assistant", snapshot(full_response, text)))
           ELSE UNCHANGED <<full_response, yields, chatbot>>
    /\ UNCHANGED <<conversation_history, session_metadata, t_pc, new_history,
                   t_request, t_end, t_asked>>
    /\ UNCHANGED <<appVars, memVars, clsVars, pageVars, conVars>>

\* The stream ends: the formatted response with the disclaimer is yielded.
TStreamEnd(budget) ==
    /\ t_pc = "streaming"
    /\ IF full_response # <<>> THEN t_faults' = t_faults
       ELSE t_faults < budget /\ t_faults' = t_faults + 1
    /\ t_end' = "normal"
    /\ t_pc' = "finalizing"
    /\ yields' = Append(yields, final_item(full_response))
    /\ chatbot' = Append(new_history, Turn("assistant", final_item(full_response)))
    /\ UNCHANGED <<conversation_history, session_metadata, new_history, t_request,
                   full_response, delivered, t_asked>>
    /\ UNCHANGED <<appVars, memVars, clsVars, pageVars, conVars>>

\* ask is resumed after its last yield: the two Turns are appended to
\* conversation_history and messages_count grows by 2.
TFinalize ==
    /\ t_pc = "finalizing"
    /\ conversation_history' = conversation_history
         \o << Turn("user", new_history[Len(new_history)].content),
               Turn("assistant", full_response) >>
    /\ session_metadata' =
         [session_metadata EXCEPT !.messages_count = session_metadata.messages_count + 2]
    /\ t_pc' = "idle"
    /\ UNCHANGED <<chatbot, new_history, t_request, full_response, delivered, yields,
                   t_end, t_asked, t_faults>>
    /\ UNCHANGED <<appVars, memVars, clsVars, pageVars, conVars>>

\* The stream raises: ask yields the error text and ends.
TStreamError(budget) ==
    /\ t_pc = "streaming"
    /\ t_faults < budget
    /\ t_faults' = t_faults + 1
    /\ yields' = Append(yields, ErrorItem)
    /\ chatbot' = Append(new_history, Turn("assistant", ErrorItem))
    /\ t_end' = "error"
    /\ t_pc' = "idle"
    /\ UNCHANGED <<conversation_history, session_metadata, new_history, t_request,
                   full_response, delivered, t_asked>>
    /\ UNCHANGED <<appVars, memVars, clsVars, pageVars, conVars>>

\* The Clear button: clear_history.
TClear ==
    /\ conversation_history' = <<>>
    /\ chatbot' = <<>>
    /\ UNCHANGED <<session_metadata, t_pc, new_history, t_request, full_response,
                   delivered, yields, t_end, t_asked, t_faults>>
    /\ UNCHANGED <<appVars, memVars, clsVars, pageVars, conVars>>

\* ------------------------------------- tutor.py: the controls and buttons
SetMode_resets ==
    /\ page_ops < MaxPageOps
    /\ \E mode \in ModeChoices \ {mode_radio} : mode_radio' = mode
    /\ page_ops' = page_ops + 1
    /\ chatbot' = <<>>
    /\ conversation_history' = <<>>
    /\ UNCHANGED <<config, settings_file, model_dropdown, memory_slider, temp_slider,
                   save_status, chat_export, download_file>>
    /\ UNCHANGED <<session_metadata, t_pc, new_history, t_request, full_response,
                   delivered, yields, t_end, t_asked, t_faults>>
    /\ UNCHANGED <<appVars, memVars, clsVars, conVars>>

\* The user picks another Response Mode.
SetMode ==
    /\ page_ops < MaxPageOps
    /\ \E mode \in ModeChoices \ {mode_radio} : mode_radio' = mode
    /\ page_ops' = page_ops + 1
    /\ UNCHANGED <<config, settings_file, model_dropdown, memory_slider, temp_slider,
                   save_status, chat_export, download_file>>
    /\ UNCHANGED <<appVars, memVars, clsVars, tutVars, conVars>>

\* The user picks another model in the dropdown.
SetModel ==
    /\ page_ops < MaxPageOps
    /\ \E model_val \in ModelChoices \ {model_dropdown} : model_dropdown' = model_val
    /\ page_ops' = page_ops + 1
    /\ UNCHANGED <<config, settings_file, mode_radio, memory_slider, temp_slider,
                   save_status, chat_export, download_file>>
    /\ UNCHANGED <<appVars, memVars, clsVars, tutVars, conVars>>

\* The user moves the Memory Window slider.
SetMemory ==
    /\ page_ops < MaxPageOps
    /\ \E memory_val \in MemoryValues \ {memory_slider} : memory_slider' = memory_val
    /\ page_ops' = page_ops + 1
    /\ UNCHANGED <<config, settings_file, mode_radio, model_dropdown, temp_slider,
                   save_status, chat_export, download_file>>
    /\ UNCHANGED <<appVars, memVars, clsVars, tutVars, conVars>>

\* handle_save_settings: tutor.config is replaced by the copy holding the values
\* of the controls, then save_settings writes it; open(..., 'w') or json.dump may
\* raise, which leaves the file as it was or cut short, and save_settings
\* returns False.
TSaveSettings ==
    /\ page_ops < MaxPageOps
    /\ LET new_config == [config EXCEPT !.temperature = temp_slider,
                                         !.max_memory = memory_slider,
                                         !.model = model_dropdown]
       IN  /\ config' = new_config
           /\ \/ /\ settings_file' = dump(new_config)
                 /\ save_status' = "saved"
              \/ /\ settings_file' \in {settings_file, CorruptFile}
                 /\ save_status' = "failed"
    /\ page_ops' = page_ops + 1
    /\ UNCHANGED <<mode_radio, model_dropdown, memory_slider, temp_slider,
                   chat_export, download_file>>
    /\ UNCHANGED <<appVars, memVars, clsVars, tutVars, conVars>>

\* export_json / EnhancedTutor.export_conversation: "{}" and no file when the
\* history is empty; else the snapshot is written with open(..., 'w') and
\* json.dump, and a failure of either is printed and answered with None.
TExport ==
    /\ page_ops < MaxPageOps
    /\ IF conversation_history = <<>>
       THEN /\ download_file' = "{}"
            /\ chat_export' = chat_export
       ELSE \/ /\ chat_export' = "complete"
               /\ download_file' = "file"
            \/ /\ chat_export' \in {"absent", "partial"}
               /\ download_file' = "none"
    /\ page_ops' = page_ops + 1
    /\ UNCHANGED <<config, settings_file, mode_radio, model_dropdown, memory_slider,
                   temp_slider, save_status>>
    /\ UNCHANGED <<appVars, memVars, clsVars, tutVars, conVars>>

\* What a chunk may carry in a session of several turns.
PlainTexts == { <<>>, <<"o","k">> }

NextTutor ==
    \/ TSubmit(MaxTurns)
    \/ TCreateError(MaxFaults)
    \/ TCreateOk
    \/ TChunk(PlainTexts, MaxChunks, MaxFaults)
    \/ TStreamEnd(MaxFaults)
    \/ TFinalize
    \/ TStreamError(MaxFaults)
    \/ TClear

InitTutor == AppInit /\ MemIdle /\ ClsIdle /\ (\E file \in SettingsFiles : TutStart(file))

SpecTutor == InitTutor /\ [][NextTutor]_vars

\* The page with its Settings and History tabs in use; the answers are plain.
NextPage ==
    \/ TSubmit(MaxPageTurns)
    \/ TCreateOk
    \/ TChunk(PlainTexts, 1, 0)
    \/ TStreamEnd(0)
    \/ TFinalize
    \/ SetMode
    \/ SetModel
    \/ SetMemory
    \/ TSaveSettings
    \/ TExport

SpecPage == InitTutor /\ [][NextPage]_vars

\* ------------------------------------------ tutor.py: settings over restarts
\* The JSON objects a settings file may hold: each key absent or present.
ObjectFiles ==
    { [kind |-> "object",
       obj  |-> [ollama_url |-> u, model |-> m, max_memory |-> w, temperature |-> t,
                 buffer_size |-> b]] :
        u \in {<<>>, <<DEFAULT_CONFIG.ollama_url>>},
        m \in {<<>>} \cup { <<x>> : x \in ModelChoices },
        w \in {<<>>} \cup { <<n>> : n \in MemoryValues },
        t \in {<<>>, <<5>>},
        b \in {<<>>, <<DEFAULT_CONFIG.buffer_size>>} }

LoadableFiles ==
    ObjectFiles \cup {MissingFile, CorruptFile, [kind |-> "notobject", obj |-> NoKeys]}

\* The program is stopped and started again: CONFIG = load_settings() reads the
\* file as the last run left it, and the tutor and the page are built anew.
Restart ==
    /\ config' = load_settings(settings_file)
    /\ mode_radio' = "Quick"
    /\ model_dropdown' = load_settings(settings_file).model
    /\ memory_slider' = load_settings(settings_file).max_memory
    /\ temp_slider' = load_settings(settings_file).temperature
    /\ save_status' = "none"
    /\ download_file' = "none"
    /\ conversation_history' = <<>>
    /\ session_metadata' = [created |-> "t0", messages_count |-> 0,
                            performance_metrics |-> <<>>]
    /\ chatbot' = <<>>
    /\ t_pc' = "idle"
    /\ new_history' = <<>>
    /\ t_request' = <<>>
    /\ full_response' = <<>>
    /\ delivered' = <<>>
    /\ yields' = <<>>
    /\ t_end' = "none"
    /\ UNCHANGED <<settings_file, chat_export, page_ops, t_asked, t_faults>>
    /\ UNCHANGED <<appVars, memVars, clsVars, conVars>>

NextLoad ==
    \/ SetModel
    \/ SetMemory
    \/ TSaveSettings
    \/ Restart

InitLoad == AppInit /\ MemIdle /\ ClsIdle /\ (\E file \in LoadableFiles : TutStart(file))

SpecLoad == InitLoad /\ [][NextLoad]_vars

\* ----------------------- tutor.py: two calls of chat_function on one tutor
\* create_enhanced_ui makes one EnhancedTutor and binds chat_function to two
\* listeners; each listener runs one call at a time, and nothing in tutor.py
\* makes a call of one wait for a call of the other (no lock, no shared queue).
\* The steps are those of EnhancedTutor.ask that touch the shared tutor.

\* What a call of tutor.ask in this setting leaves alone.
SharedFrame ==
    /\ UNCHANGED <<chatbot, t_pc, new_history, t_request, full_response, delivered,
                   yields, t_end, t_asked, t_faults>>
    /\ UNCHANGED <<appVars, memVars, clsVars, pageVars>>

\* chat_function starts tutor.ask and the inference call returns a stream.
SharedSubmit(h) ==
    /\ h_pc[h] = "idle"
    /\ shared_turns < MaxShared
    /\ \E message \in QuestionLines(shared_turns + 1) :
         h_question' = [h_question EXCEPT ![h] = message]
    /\ h_response' = [h_response EXCEPT ![h] = <<>>]
    /\ h_pc' = [h_pc EXCEPT ![h] = "streaming"]
    /\ shared_turns' = shared_turns + 1
    /\ UNCHANGED <<h_count, conversation_history, session_metadata>>
    /\ SharedFrame

\* full_response += text; yield full_response
SharedChunk(h) ==
    /\ h_pc[h] = "streaming"
    /\ h_response[h] = <<>>
    /\ h_response' = [h_response EXCEPT ![h] = snapshot(h_response[h], <<"o","k">>)]
    /\ UNCHANGED <<h_pc, h_question, h_count, shared_turns, conversation_history,
                   session_metadata>>
    /\ SharedFrame

\* The stream ends and the final item is yielded.
SharedStreamEnd(h) ==
    /\ h_pc[h] = "streaming"
    /\ h_response[h] # <<>>
    /\ h_pc' = [h_pc EXCEPT ![h] = "finalizing"]
    /\ UNCHANGED <<h_question, h_response, h_count, shared_turns,
                   conversation_history, session_metadata>>
    /\ SharedFrame

\* self.conversation_history.append({"role": "user", "content": question})
SharedAppendUser(h) ==
    /\ h_pc[h] = "finalizing"
    /\ conversation_history' = Append(conversation_history, Turn("user", h_question[h]))
    /\ h_pc' = [h_pc EXCEPT ![h] = "user_appended"]
    /\ UNCHANGED <<h_question, h_response, h_count, shared_turns, session_metadata>>
    /\ SharedFrame

\* self.conversation_history.append({"role": "assistant", "content": full_response})
SharedAppendAssistant(h) ==
    /\ h_pc[h] = "user_appended"
    /\ conversation_history' =
         Append(conversation_history, Turn("assistant", h_response[h]))
    /\ h_pc' = [h_pc EXCEPT ![h] = "both_appended"]
    /\ UNCHANGED <<h_question, h_response, h_count, shared_turns, session_metadata>>
    /\ SharedFrame

\* self.session_metadata['messages_count'] += 2, the read
SharedReadCount(h) ==
    /\ h_pc[h] = "both_appended"
    /\ h_count' = [h_count EXCEPT ![h] = session_metadata.messages_count]
    /\ h_pc' = [h_pc EXCEPT ![h] = "count_read"]
    /\ UNCHANGED <<h_question, h_response, shared_turns, conversation_history,
                   session_metadata>>
    /\ SharedFrame

\* self.session_metadata['messages_count'] += 2, the write
SharedWriteCount(h) ==
    /\ h_pc[h] = "count_read"
    /\ session_metadata' = [session_metadata EXCEPT !.messages_count = h_count[h] + 2]
    /\ h_pc' = [h_pc EXCEPT ![h] = "idle"]
    /\ UNCHANGED <<h_question, h_response, h_count, shared_turns, conversation_history>>
    /\ SharedFrame

NextShared ==
    \/ \E h \in Listeners : SharedSubmit(h)
    \/ \E h \in Listeners : SharedChunk(h)
    \/ \E h \in Listeners : SharedStreamEnd(h)
    \/ \E h \in Listeners : SharedAppendUser(h)
    \/ \E h \in Listeners : SharedAppendAssistant(h)
    \/ \E h \in Listeners : SharedReadCount(h)
    \/ \E h \in Listeners : SharedWriteCount(h)

SpecShared == Init /\ [][NextShared]_vars

\* One session of either program: the console of app.py with questions, /fast
\* and /batch, or the web page.
AppFresh == AppInit
PageFresh == \E file \in SettingsFiles : TutStart(file)

NextSwitch ==
    \/ PageFresh /\ Question
    \/ PageFresh /\ CreateOk
    \/ PageFresh /\ Chunk
    \/ PageFresh /\ StreamEnd
    \/ PageFresh /\ CmdFast
    \/ PageFresh /\ CmdBatch
    \/ AppFresh /\ NextPage

SpecSwitch == InitTutor /\ [][NextSwitch]_vars

\* What a chunk may carry in the one turn whose stream is looked at closely.
StreamTexts ==
    { <<>>, <<"H","e","l">>, <<"l","o",","," ">>, Fence, <<BT,BT,BT,"p","y","\n">>,
      <<BT,BT,BT,"z","z","\n">>, <<"\n">> }

NextAsk ==
    \/ TSubmit(1)
    \/ TCreateError(MaxFrags + 2)
    \/ TCreateOk
    \/ TChunk(StreamTexts, MaxFrags, MaxFrags + 2)
    \/ TStreamEnd(MaxFrags + 2)
    \/ TFinalize
    \/ TStreamError(MaxFrags + 2)

SpecAsk == Init /\ [][NextAsk]_vars

\* The steps of a turn under way.  chat_function's for loop resumes the generator
\* until it is exhausted, and the stream it reads is finite, so a turn that can
\* take a step takes one.
AskTurnStep ==
    \/ TCreateOk
    \/ TCreateError(MaxFrags + 2)
    \/ TStreamError(MaxFrags + 2)
    \/ TChunk(StreamTexts, MaxFrags, MaxFrags + 2)
    \/ TStreamEnd(MaxFrags + 2)
    \/ TFinalize

SpecAskFair == SpecAsk /\ WF_vars(AskTurnStep)

\* ================================================================== claims

\* The user/assistant Turns of a sequence of <<question, answer>> round trips.
PairsAsTurns(pairs) ==
    [i \in 1..(2 * Len(pairs)) |->
        IF i % 2 = 1 THEN Turn("user", pairs[(i + 1) \div 2][1])
        ELSE Turn("assistant", pairs[i \div 2][2])]

\* C1: after k consecutive successful round trips from a system-only Conversation
\* the stored Conversation is the system Turn followed by the most recent
\* min(k, MAX_MEMORY) complete user/assistant pairs, 1 + 2*min(k, MAX_MEMORY) Turns
\* in all (9 Turns after the 5th question).
C1_WindowOfWholePairs ==
    (pc = "idle" /\ run_ok) =>
        messages = <<system_turn>> \o PairsAsTurns(lastN(run, MAX_MEMORY))

\* What the Memory Window contract asks of a trim with window w.
ContractTrim(m, w) ==
    IF Len(m) <= 2 * w + 1 THEN m
    ELSE <<m[1]>> \o SubSeq(m, Len(m) - 2 * w + 1, Len(m))

\* C2: both trims (trim_memory with W = MAX_MEMORY, the inline trim of
\* EnhancedTutor.ask with W = max_memory) return the list unchanged when it has at
\* most 2W+1 entries and otherwise its first entry followed by its last 2W entries;
\* so a trimmed list has at most 2W+1 entries and keeps the original first Turn.
C2_TrimContract ==
    /\ lastTrim = "trim_memory" =>
        /\ seq = ContractTrim(pre, MAX_MEMORY)
        /\ Len(seq) <= 2 * MAX_MEMORY + 1
    /\ lastTrim = "ask_trim" =>
        /\ seq = ContractTrim(pre, W)
        /\ Len(seq) <= 2 * W + 1
    /\ seq # <<>> => seq[1].content \in { <<NumStr(0)>>, <<NumStr(1)>> }

\* C3: trim_memory is idempotent, leaves a list of at most 2*MAX_MEMORY+1 entries
\* as it is, and builds its result only from entries of its argument, with the
\* argument's first entry kept first whatever its role (no system Turn is made up).
C3_TrimIdempotent ==
    /\ trim_memory(trim_memory(seq)) = trim_memory(seq)
    /\ lastTrim = "trim_memory" =>
        /\ trim_memory(seq) = seq
        /\ Len(pre) <= 2 * MAX_MEMORY + 1 => seq = pre
        /\ \A i \in 1..Len(seq) : \E j \in 1..Len(pre) : pre[j] = seq[i]
        /\ pre # <<>> => (seq # <<>> /\ seq[1] = pre[1])
        /\ pre = <<>> => seq = <<>>

C3_Witness ==
    /\ lastTrim = "trim_memory"
    /\ Len(pre) > 2 * MAX_MEMORY + 1
    /\ pre[1].role # "system"
    /\ Len(seq) = 2 * MAX_MEMORY + 1

\* C4: in every state of the console session the Conversation holds exactly one
\* system Turn, at position 0, and it is the Turn made at session start.
C4_OneSystemTurnFirst ==
    pc \in {"idle", "create", "streaming"} =>
    /\ Len(messages) >= 1
    /\ messages[1] = system_turn
    /\ \A i \in 2..Len(messages) : messages[i].role # "system"

C4_Witness ==
    /\ pc = "idle"
    /\ Len(messages) = 2 * MAX_MEMORY + 2
    /\ messages[2].role = "assistant"
    /\ export_file = "complete"
    /\ Len(sent) > 1

\* Some keyword of the list occurs in the question, letter case aside.
Mentions(kws) ==
    \E j \in 1..Len(kws) : \E i \in 1..Len(question) :
        /\ i + Len(kws[j]) - 1 <= Len(question)
        /\ \A n \in 1..Len(kws[j]) : lowerChar(question[i + n - 1]) = kws[j][n]

ContractLabel ==
    IF Mentions(MathKeywords) THEN "math"
    ELSE IF Mentions(CodeKeywords) THEN "code"
    ELSE IF Mentions(DetailedKeywords) THEN "detailed"
    ELSE "default"

\* C5: the classifier returns the label of the first keyword set (math, code,
\* detailed) with a case-insensitive substring match and default when none
\* matches, with the parameters math (0.2, 300), code (0.1, 400), detailed
\* (0.4, 500), default (0.3, 200); app.py and EnhancedTutor agree.
C5_ClassifierTable ==
    classified # <<>> =>
        LET c == classified[1]
        IN  /\ c.query_type = ContractLabel
            /\ c.tutor_query_type = ContractLabel
            /\ c.tutor_params = c.params
            /\ c.query_type = "math" => c.params = [temperature |-> 2, max_tokens |-> 300]
            /\ c.query_type = "code" => c.params = [temperature |-> 1, max_tokens |-> 400]
            /\ c.query_type = "detailed" =>
                 c.params = [temperature |-> 4, max_tokens |-> 500]
            /\ c.query_type = "default" =>
                 c.params = [temperature |-> 3, max_tokens |-> 200]
            /\ (Mentions(MathKeywords) /\ Mentions(CodeKeywords)) =>
                 c.query_type = "math"

C5_Witness ==
    /\ classified # <<>>
    /\ Mentions(MathKeywords)
    /\ Mentions(CodeKeywords)
    /\ question # lower(question)
    /\ classified[1].params = [temperature |-> 2, max_tokens |-> 300]

\* The request the contract asks for a batch question: the system Turn and the
\* question, nothing else.
FreshRequest(q) ==
    [model |-> MODEL, messages |-> <<system_turn, Turn("user", q)>>, stream |-> TRUE,
     params |-> get_optimal_params(q)]

BatchRequestsExpected ==
    { << FreshRequest(<<"h","i">>) >>,
      << FreshRequest(<<"w","h","y">>), FreshRequest(<<"c","o","d","e">>) >>,
      << FreshRequest(<<"a">>), FreshRequest(<<"b">>), FreshRequest(<<"c">>) >> }

\* C9: /batch sends, for each of its questions in input order, a request holding
\* exactly [system Turn, that question], whatever the shared Conversation holds,
\* and leaves the shared Conversation as it was.
C9_BatchIsolated ==
    [][\/ /\ messages' = messages
          /\ sent' = <<>> \/ sent' \in BatchRequestsExpected
       \/ ~(CmdBatch /\ pc' = "idle")]_vars

C9_Witness ==
    /\ Len(sent) = 3
    /\ Len(messages) > 2 * MAX_MEMORY
    /\ pc = "idle"

\* C10: when the stream raises after at least one fragment, ask returns the
\* partial buffer with an error marker after it, and main records the question
\* with that partial answer.
C10_PartialKeptOnError ==
    [][(StreamError /\ full_text # <<>>) =>
        /\ Len(response') > Len(full_text)
        /\ SubSeq(response', 1, Len(full_text)) = full_text
        /\ messages' = Append(messages, Turn("assistant", response'))]_vars


\* The chunk texts that carried text, in the order they came.
Fragments == SelectSeq(delivered, LAMBDA f : f # <<>>)

RECURSIVE Joined(_, _)
Joined(fs, i) == IF i = 0 THEN <<>> ELSE Joined(fs, i - 1) \o fs[i]

endsWith(t, p) ==
    Len(t) >= Len(p) /\ SubSeq(t, Len(t) - Len(p) + 1, Len(t)) = p

\* No two fences one after the other: nothing a pair of fences could delimit.
NoFencedRegion(t) ==
    ~ \E i \in FencesFrom(t, 1) : \E j \in FencesFrom(t, 1) : j >= i + 3

\* C6: for a stream of n >= 1 non-empty fragments that ends normally,
\* EnhancedTutor.ask yields n+1 items: the i-th is f1+...+fi, and the last is the
\* finalized text (the concatenation itself when it holds no fenced code region)
\* followed by the fixed marker.
C6_SnapshotsThenFinal ==
    (t_end = "normal" /\ Fragments # <<>>) =>
        LET n == Len(Fragments)
            whole == Joined(Fragments, n)
        IN  /\ Len(yields) = n + 1
            /\ \A i \in 1..n : yields[i] = Joined(Fragments, i)
            /\ \A i \in 2..n : startsWith(yields[i], yields[i - 1])
            /\ endsWith(yields[n + 1], meta_append)
            /\ NoFencedRegion(whole) => yields[n + 1] = whole \o meta_append

C6_Witness ==
    /\ t_end = "normal"
    /\ Len(Fragments) >= 2
    /\ Len(delivered) > Len(Fragments)
    /\ yields[Len(yields)] # Joined(Fragments, Len(Fragments)) \o meta_append

\* C7: a stream that ends normally without any non-empty fragment makes
\* EnhancedTutor.ask yield the "no response" sentinel as its only item.
C7_EmptyStreamSentinel ==
    (t_end = "normal" /\ Fragments = <<>>) => yields = <<NoResponse>>

\* C8: after clear-history the Conversation holds no user or assistant Turn and
\* the Session Metadata counters are zero, the creation timestamp kept.
C8_ClearResetsCounters ==
    [][TClear =>
        /\ conversation_history' = <<>>
        /\ chatbot' = <<>>
        /\ session_metadata'.messages_count = 0
        /\ session_metadata'.created = session_metadata.created]_vars

\* C11: when the inference call fails before any fragment, the turn ends in an
\* error result and the failed question is not left in the stored Conversation.
C11_FailedCallLeavesNoQuestion ==
    [][CreateError =>
        /\ response' = <<>>
        /\ \A i \in 1..Len(messages') :
             messages'[i] # Turn("user", last_question(messages))]_vars

\* The system Turn, then user and assistant Turns in turn, as many of one as of
\* the other.
StructurallyValid(m) ==
    /\ Len(m) >= 1
    /\ m[1].role = "system"
    /\ (Len(m) - 1) % 2 = 0
    /\ \A i \in 2..Len(m) : m[i].role = IF i % 2 = 0 THEN "user" ELSE "assistant"

\* C12: at every return to Idle of the console session the stored Conversation
\* is the system Turn followed by an even number of Turns that alternate user,
\* assistant, starting with a user Turn.
C12_IdleConversationValid ==
    pc = "idle" => StructurallyValid(messages)

\* C14: an interrupt during Streaming stops the consumption of fragments,
\* appends no assistant Turn for the interrupted question and returns the session
\* to Idle, the Memory Window still within its bound and led by the system Turn.
C14_InterruptReturnsToIdle ==
    [][Interrupt =>
        /\ pc' = "idle"
        /\ messages' = messages
        /\ Len(messages') <= 2 * MAX_MEMORY + 1
        /\ messages'[1] = system_turn]_vars

\* C15: a directive outside the vocabulary prints the unknown-command notice and
\* changes nothing: the Conversation handle_command returns is the one it was
\* given and the selected model is the same; /help, /history and /export (when it
\* returns) leave the Conversation and the model alone as well.
C15_UnknownChangesNothing ==
    [][/\ CmdUnknown =>
            /\ notice' = "unknown"
            /\ messages' = messages
            /\ MODEL' = MODEL
            /\ export_file' = export_file
            /\ pc' = "idle"
       /\ (CmdHelp \/ CmdHistory \/ (CmdExport /\ pc' = "idle")) =>
            /\ notice' \in {"help", "history", "exported"}
            /\ messages' = messages
            /\ MODEL' = MODEL]_vars

C15_Witness ==
    /\ notice = "unknown"
    /\ pc = "idle"
    /\ Len(messages) > 2 * MAX_MEMORY
    /\ MODEL = FAST_MODEL
    /\ export_file = "complete"

\* The Turns of a list, as a set.
TurnsOf(m) == { m[i] : i \in 1..Len(m) }

\* C16: switching the response mode or the model changes no stored or displayed
\* Turn and nothing of a turn under way; the next request built has the prompt of
\* the mode selected then at position 0, the model selected then as its target,
\* and after position 0 only Turns of the history and the new question.  /fast
\* leaves the Conversation alone and later requests go to the fast model.
C16_SwitchOnlyAffectsLaterTurns ==
    [][/\ (SetMode \/ SetModel) => UNCHANGED tutVars
       /\ TSubmit(MaxPageTurns) =>
            LET r == t_request'[1]
                asked_turn == new_history'[Len(new_history')]
            IN  /\ r.messages[1] =
                     Turn("system", IF mode_radio = "Quick"
                                    THEN SYSTEM_PROMPTS.default
                                    ELSE SYSTEM_PROMPTS.detailed)
                /\ r.model = model_dropdown
                /\ r.messages[Len(r.messages)] = asked_turn
                /\ \A i \in 2..Len(r.messages) :
                     r.messages[i] \in TurnsOf(chatbot) \cup {asked_turn}
                /\ chatbot' = chatbot
                /\ conversation_history' = conversation_history
       /\ CmdFast =>
            /\ messages' = messages
            /\ MODEL' = FAST_MODEL
       /\ (Question \/ (CmdBatch /\ sent' # <<>>)) =>
            \A i \in 1..Len(sent') : sent'[i].model = MODEL]_vars

C16_Witness ==
    /\ t_pc = "create"
    /\ t_asked = 2
    /\ chatbot # <<>>
    /\ t_request[1].messages[1].content = SYSTEM_PROMPTS.detailed
    /\ t_request[1].model # config.model
    /\ Len(t_request[1].messages) = 4

\* C17: when saving the settings fails the failure is reported, tutor.config is
\* what it was before the attempt and the turn state is untouched; when an export
\* write fails the Conversation and the Session Metadata are unchanged and the
\* session goes on.
C17_FailedWriteKeepsState ==
    [][/\ (TSaveSettings /\ settings_file' # dump(config')) =>
            /\ save_status' = "failed"
            /\ config' = config
            /\ UNCHANGED tutVars
       /\ (TExport /\ download_file' = "none") =>
            /\ UNCHANGED <<tutVars, config>>
       /\ (CmdExport /\ export_file' # "complete") =>
            /\ messages' = messages
            /\ pc' = "idle"]_vars

\* Every key of the defaults is given by the file.
IsComplete(file) ==
    /\ file.kind = "object"
    /\ \A k \in DOMAIN DEFAULT_CONFIG : file.obj[k] # <<>>

\* C18: after a start and until a save, the loaded settings are exactly the built-in defaults unless the
\* settings file is complete and well formed (a missing, corrupt or partial file
\* changes nothing).
C18_LoadFallsBackToDefaults ==
    (save_status = "none" /\ ~IsComplete(settings_file)) => config = DEFAULT_CONFIG

\* C19: the model and the window a turn uses are those of the saved settings:
\* moving the controls without saving does not change the next request.
C19_TurnUsesSavedSettings ==
    [][TSubmit(MaxPageTurns) =>
        LET r == t_request'[1]
        IN  /\ r.model = config.model
            /\ r.messages = ask_trim(<<r.messages[1]>> \o chatbot
                                        \o <<new_history'[Len(new_history')]>>,
                                     config.max_memory)]_vars

\* C20: no export leaves a truncated or partly written snapshot behind.
C20_ExportAllOrNothing ==
    /\ chat_export # "partial"
    /\ export_file # "partial"

\* C13: on the one shared tutor at most one turn is streaming at any time, and
\* the turns never interleave: when no call is running, conversation_history is
\* made of each question followed by its own answer and messages_count counts
\* every Turn appended.
C13_OneTurnAtATime ==
    /\ Cardinality({ h \in Listeners : h_pc[h] = "streaming" }) <= 1
    /\ (\A h \in Listeners : h_pc[h] = "idle") =>
        /\ StructurallyValid(<<system_turn>> \o conversation_history)
        /\ session_metadata.messages_count = Len(conversation_history)

\* The system Turn, whole user/assistant pairs, then the user Turn of question q.
WellFormedRequest(m, q) ==
    /\ Len(m) >= 2
    /\ StructurallyValid(SubSeq(m, 1, Len(m) - 1))
    /\ m[Len(m)] = Turn("user", q)

\* C21: the message set handed to the inference call has the system Turn at
\* position 0 and nowhere else, ends with the user Turn of the submitted
\* question, and holds between them only whole user/assistant pairs.
C21_RequestWellFormed ==
    /\ pc = "create" =>
        /\ Len(sent) = 1
        /\ sent[1].messages[1] = system_turn
        /\ WellFormedRequest(sent[1].messages, strip(CHOOSE l \in QuestionLines(asked) : TRUE))
    /\ t_pc = "create" =>
        WellFormedRequest(t_request[1].messages, new_history[Len(new_history)].content)

\* C22: while a turn is in BuildingRequest or Streaming the stored Conversation
\* holds no Turn of the question under way; the Turns of a question are recorded
\* only once its answer is complete.
C22_NoAppendBeforeFinalizing ==
    /\ pc \in {"create", "streaming"} =>
        \A i \in 1..Len(messages) :
            messages[i] # Turn("user", strip(CHOOSE l \in QuestionLines(asked) : TRUE))
    /\ t_pc \in {"create", "streaming"} =>
        \A i \in 1..Len(conversation_history) :
            conversation_history[i] # new_history[Len(new_history)]

\* C23: at every Idle state of the web session conversation_history is trimmed
\* to the Memory Window: it holds at most 2 * W user/assistant Turns, W being
\* the Memory Limit the turns were submitted with.
C23_HistoryWithinWindow ==
    t_pc = "idle" => Len(conversation_history) <= 2 * memory_slider

\* C25: at every Idle state of the web session the history the page holds and
\* conversation_history have the same number of Turns, with the same roles in
\* the same order and the same questions.
C25_PageHistoryMatchesEngine ==
    t_pc = "idle" =>
        /\ Len(chatbot) = Len(conversation_history)
        /\ \A i \in 1..Len(chatbot) :
            /\ chatbot[i].role = conversation_history[i].role
            /\ chatbot[i].role = "user" =>
                chatbot[i].content = conversation_history[i].content

\* C24: a fully consumed EnhancedTutor.ask generator yields at most n+1 items for
\* n fragments that carried text, yields nothing more once its last item is out,
\* issues its inference call once (an inference call is outstanding only right
\* after a submission from Idle, never again in the same turn), and the session
\* comes back to Idle with the turn ended normally or by an error.
C24_TurnTerminates ==
    /\ [](Len(yields) <= Len(Fragments) + 1)
    /\ [][t_pc' = "create" => (t_pc = "idle" /\ t_asked' = t_asked + 1)]_vars
    /\ [][(t_pc \in {"idle", "finalizing"} /\ t_pc' # "create") => yields' = yields]_vars
    /\ (t_pc = "create") ~> (t_pc = "idle" /\ t_end \in {"normal", "error"})

\* A stream that delivered two fragments with text and then failed: three items.
C24_Witness ==
    /\ t_pc = "idle"
    /\ t_end = "error"
    /\ Len(Fragments) = 2
    /\ Len(yields) = 3
    /\ yields[3] = ErrorItem

====
